---- MODULE Spec2Model ----
(***************************************************************************)
(* Model of the Markov state graph engine of fail_recover_graph.py         *)
(* (class StateGraph) and of the N-K chain builder of nk_fail_model.py.    *)
(*                                                                         *)
(* A State is the record [id, faults, recovers], a Transition the record   *)
(* [target, rate, label].  Python's None is the integer None (-1), which   *)
(* is no state id; "no node" is the record NoNode whose id is None.  A     *)
(* failed assert or dict lookup stops the program: err names the source    *)
(* line that raised, and no action is enabled afterwards.                  *)
(***************************************************************************)
EXTENDS Integers, Sequences, FiniteSets, TLC

VARIABLES
    root,        \* self.root: a State, or NoNode while it is None
    nodes,       \* self.nodes: function from the ids added to their State
    term_nodes,  \* self.term_nodes: set of ids
    rootIsEntry, \* the object self.root is the object stored in self.nodes
    err,         \* "none", or the line that raised ("assert43", "keyerror110", ...)
    pc,          \* position of the running operation
    ncalls,      \* number of construction calls issued so far
    last,        \* the last construction call and its arguments
    visited,     \* visit_nodes: visited
    discovered,  \* visit_nodes: discovered, a sequence of [n, lvl]
    next,        \* visit_nodes: next (0-based index into discovered)
    level_map,   \* fault_level_map: level_map, a function on ids and None
    inc_degree,  \* visit_major_edges: inc_degree (defaultdict(int))
    queue,       \* visit_major_edges: queue, a sequence of State
    qnext,       \* visit_major_edges: next (0-based index into queue)
    cblog,       \* the calls cb(target, n, t) made so far, in order
    M,           \* transition_intensity_matrix: M
    row,         \* transition_intensity_matrix: number of rows filled
    R,           \* nk_fail_graph: the redundancy R of the chain being built
    op,          \* the method that was called
    result       \* what fault_resilence returned

vars == <<root, nodes, term_nodes, rootIsEntry, err, pc, ncalls, last,
          visited, discovered, next, level_map, inc_degree, queue, qnext,
          cblog, M, row, R, op, result>>

graphVars == <<root, nodes, term_nodes, rootIsEntry>>
bfsVars == <<visited, discovered, next, level_map>>
topoVars == <<inc_degree, queue, qnext, cblog>>

----------------------------------------------------------------------------
(* Bounds *)

\* state ids are 0..MaxId
MaxId == 2
\* longest faults tuple of a State handed to the analysis
MaxFaults == 2
\* longest recovers tuple of a State handed to the analysis
MaxRecovers == 1
\* most internal states of an analysed graph
MaxNodes == 2
\* most transitions (faults and recovers together) of an analysed graph
MaxEdges == 4
\* number of add_state/add_term_state calls of a construction sequence
MaxCalls == 4
\* the construction sequences use the ids 0..MaxBuildId
MaxBuildId == 2
\* largest redundancy R handed to nk_fail_graph
MaxR == 8
\* rates of the matrix inputs are 1..MaxRate
MaxRate == 2
\* the matrix inputs use the ids 0..MaxMatrixId
MaxMatrixId == 2

----------------------------------------------------------------------------
(* Data *)

None == -1

Ids == 0..MaxId

NoNode == [id |-> None, faults |-> <<>>, recovers |-> <<>>]

State(id, faults, recovers) == [id |-> id, faults |-> faults, recovers |-> recovers]

Transition(target, rate, label) == [target |-> target, rate |-> rate, label |-> label]

fault(target, rate) == Transition(target, rate, "fault")

recover(target, rate) == Transition(target, rate, "recover")

EmptyMap == [x \in {} |-> 0]

SeqsUpTo(S, n) == UNION {[1..k -> S] : k \in 0..n}

Range(s) == {s[i] : i \in 1..Len(s)}

NoCall == [op |-> "none", id |-> None, recovers |-> <<>>, is_root |-> FALSE]

----------------------------------------------------------------------------
(* Graph construction *)

\* add_state without the assert of line 43: a second root replaces the first
AddStateNoRootCheck(id, faults, recovers, is_root) ==
    LET n == State(id, faults, recovers) IN
    /\ nodes' = [x \in DOMAIN nodes \cup {id} |-> IF x = id THEN n ELSE nodes[x]]
    /\ last' = [op |-> "add_state", id |-> id, recovers |-> recovers, is_root |-> is_root]
    /\ IF is_root
       THEN IF recovers # <<>>
            THEN /\ err' = "assert44"
                 /\ rootIsEntry' = (rootIsEntry /\ root.id # id)
                 /\ UNCHANGED root
            ELSE /\ root' = n
                 /\ rootIsEntry' = TRUE
                 /\ UNCHANGED err
       ELSE /\ rootIsEntry' = (rootIsEntry /\ root.id # id)
            /\ UNCHANGED <<root, err>>
    /\ UNCHANGED term_nodes

\* StateGraph.add_state: the node is stored before the root assertions run
AddState(id, faults, recovers, is_root) ==
    LET n == State(id, faults, recovers) IN
    /\ nodes' = [x \in DOMAIN nodes \cup {id} |-> IF x = id THEN n ELSE nodes[x]]
    /\ last' = [op |-> "add_state", id |-> id, recovers |-> recovers, is_root |-> is_root]
    /\ IF is_root
       THEN IF root # NoNode
            THEN /\ err' = "assert43"
                 /\ rootIsEntry' = (rootIsEntry /\ root.id # id)
                 /\ UNCHANGED root
            ELSE IF recovers # <<>>
            THEN /\ err' = "assert44"
                 /\ rootIsEntry' = (rootIsEntry /\ root.id # id)
                 /\ UNCHANGED root
            ELSE /\ root' = n
                 /\ rootIsEntry' = TRUE
                 /\ UNCHANGED err
       ELSE /\ rootIsEntry' = (rootIsEntry /\ root.id # id)
            /\ UNCHANGED <<root, err>>
    /\ UNCHANGED term_nodes

\* StateGraph.add_term_state
AddTermState(id) ==
    /\ last' = [op |-> "add_term_state", id |-> id, recovers |-> <<>>, is_root |-> FALSE]
    /\ IF id \in DOMAIN nodes
       THEN /\ err' = "assert50"
            /\ UNCHANGED term_nodes
       ELSE /\ term_nodes' = term_nodes \cup {id}
            /\ UNCHANGED err
    /\ UNCHANGED <<root, nodes, rootIsEntry>>

RECURSIVE SortedIds(_)
\* sorted(): the ids of a set in increasing order
SortedIds(S) ==
    IF S = {} THEN <<>>
    ELSE LET m == CHOOSE x \in S : \A y \in S : x <= y
         IN <<m>> \o SortedIds(S \ {m})

\* StateGraph.get_states, the assert of line 58 passed: `n is not self.root`
\* compares objects, so an entry stored under the root's id by a later call stays
get_states ==
    LET ids == SortedIds(DOMAIN nodes)
        rest == SelectSeq(ids, LAMBDA i : ~(i = root.id /\ rootIsEntry))
    IN <<root>> \o [k \in 1..Len(rest) |-> nodes[rest[k]]]

\* the transition tuples the construction calls are given
BuildIds == 0..MaxBuildId
BuildFaults == {<<>>, <<fault(0, 1)>>}
BuildRecovers == {<<>>, <<recover(0, 1)>>}

Idle ==
    /\ visited = {} /\ discovered = <<>> /\ next = 0 /\ level_map = EmptyMap
    /\ inc_degree = EmptyMap /\ queue = <<>> /\ qnext = 0 /\ cblog = <<>>
    /\ M = <<>> /\ row = 0 /\ R = 0 /\ result = None

InitBuild ==
    /\ root = NoNode /\ nodes = EmptyMap /\ term_nodes = {} /\ rootIsEntry = FALSE
    /\ err = "none" /\ pc = "build" /\ ncalls = 0 /\ last = NoCall
    /\ op = "build"
    /\ Idle

CallAddState ==
    /\ pc = "build" /\ err = "none" /\ ncalls < MaxCalls
    /\ \E id \in BuildIds, f \in BuildFaults, r \in BuildRecovers, is_root \in BOOLEAN :
          AddState(id, f, r, is_root)
    /\ ncalls' = ncalls + 1
    /\ UNCHANGED <<pc, bfsVars, topoVars, M, row, R, op, result>>

CallAddTermState ==
    /\ pc = "build" /\ err = "none" /\ ncalls < MaxCalls
    /\ \E id \in BuildIds : AddTermState(id)
    /\ ncalls' = ncalls + 1
    /\ UNCHANGED <<pc, bfsVars, topoVars, M, row, R, op, result>>

NextBuild == CallAddState \/ CallAddTermState

SpecBuild == InitBuild /\ [][NextBuild]_vars

----------------------------------------------------------------------------
(* Lookups *)

\* StateGraph.find_node; the lookup self.nodes[id] raises on an unknown id
find_node(id) ==
    IF id \notin term_nodes
    THEN IF id \in DOMAIN nodes
         THEN [err |-> "none", n |-> nodes[id]]
         ELSE [err |-> "keyerror110", n |-> NoNode]
    ELSE [err |-> "none", n |-> NoNode]

\* inc_degree[k] of a defaultdict(int)
Deg(d, k) == IF k \in DOMAIN d THEN d[k] ELSE 0

\* d[k] = v of a dict
Put(d, k, v) == [x \in DOMAIN d \cup {k} |-> IF x = k THEN v ELSE d[x]]

\* visit_major_edges.is_fault_minor
is_fault_minor(lm, lvl, t) ==
    LET key == IF t.target \notin term_nodes THEN t.target ELSE None IN
    IF key \notin DOMAIN lm THEN [err |-> "keyerror158", minor |-> FALSE]
    ELSE IF lm[key] <= lvl THEN [err |-> "none", minor |-> TRUE]
    ELSE IF lm[key] # lvl + 1 THEN [err |-> "assert161", minor |-> FALSE]
    ELSE [err |-> "none", minor |-> FALSE]

\* is_recovery_minor that also drops the same-level recovery transitions
is_recovery_minor_le(lm, lvl, t) ==
    IF t.target \notin DOMAIN lm THEN [err |-> "keyerror165", minor |-> FALSE]
    ELSE IF ~(lm[t.target] <= lvl) THEN [err |-> "assert166", minor |-> FALSE]
    ELSE [err |-> "none", minor |-> lm[t.target] <= lvl]

\* visit_major_edges.is_recovery_minor
is_recovery_minor(lm, lvl, t) ==
    IF t.target \notin DOMAIN lm THEN [err |-> "keyerror165", minor |-> FALSE]
    ELSE IF ~(lm[t.target] <= lvl) THEN [err |-> "assert166", minor |-> FALSE]
    ELSE [err |-> "none", minor |-> lm[t.target] < lvl]

is_minor(kind, lm, lvl, t) ==
    IF kind = "fault" THEN is_fault_minor(lm, lvl, t) ELSE is_recovery_minor(lm, lvl, t)

----------------------------------------------------------------------------
(* visit_nodes: the breadth-first traversal along fault transitions *)

\* a traversal that numbers a child two levels below its parent
ChildLevelSkip(lvl) == lvl + 2

\* the level given to the targets of a node of level lvl (line 128)
ChildLevel(lvl) == lvl + 1

RECURSIVE Discover(_, _, _, _)
\* lines 127-128: append (find_node(t.target), lvl + 1) for the faults from the i-th on
Discover(st, n, lvl, i) ==
    IF st.err # "none" \/ i > Len(n.faults) THEN st
    ELSE LET f == find_node(n.faults[i].target) IN
         IF f.err # "none" THEN [st EXCEPT !.err = f.err]
         ELSE Discover([st EXCEPT !.disc = Append(st.disc, [n |-> f.n, lvl |-> ChildLevel(lvl)])],
                       n, lvl, i + 1)

RECURSIVE CountList(_, _, _, _, _)
\* the two loops of degree_counter (lines 174-181) over the list ts from the i-th on
CountList(st, lvl, ts, kind, i) ==
    IF st.err # "none" \/ i > Len(ts) THEN st
    ELSE LET m == is_minor(kind, level_map, lvl, ts[i]) IN
         IF m.err # "none" THEN [st EXCEPT !.err = m.err]
         ELSE IF m.minor THEN CountList(st, lvl, ts, kind, i + 1)
         ELSE CountList([st EXCEPT !.deg = Put(st.deg, ts[i].target, Deg(st.deg, ts[i].target) + 1)],
                        lvl, ts, kind, i + 1)

\* visit_major_edges.degree_counter
degree_counter(d, n, lvl) ==
    IF n = NoNode THEN [err |-> "none", deg |-> d]
    ELSE CountList(CountList([err |-> "none", deg |-> d], lvl, n.faults, "fault", 1),
                   lvl, n.recovers, "recover", 1)

\* an assertion that only asks for the terminating key to have been met
VisitedSome(vis) == None \in vis

\* the assertion of line 130
VisitedAll(vis) == vis = DOMAIN nodes \cup {None}

\* a visitor called before the `id in visited` test: a later, longer path
\* overwrites the level
visitor_always(lm, id, lvl, seen) == Put(lm, id, lvl)

\* fault_level_map.visitor, reached only for an id not yet visited (lines 122-125)
visitor(lm, id, lvl, seen) == IF seen THEN lm ELSE Put(lm, id, lvl)

\* line 116
VisitNodesEnter ==
    /\ visited' = {}
    /\ discovered' = <<[n |-> root, lvl |-> 0]>>
    /\ next' = 0

\* one iteration of the loop of visit_nodes (lines 118-128); the callback is
\* fault_level_map's visitor at pc "flm", degree_counter at pc "deg"
VisitNodesStep ==
    /\ pc \in {"flm", "deg"} /\ err = "none" /\ next < Len(discovered)
    /\ LET n == discovered[next + 1].n
           lvl == discovered[next + 1].lvl
           id == n.id
       IN /\ next' = next + 1
          /\ IF id \in visited
             THEN /\ level_map' = IF pc = "flm" THEN visitor(level_map, id, lvl, TRUE)
                                                ELSE level_map
                  /\ UNCHANGED <<visited, discovered, inc_degree, err>>
             ELSE LET c == IF pc = "deg" THEN degree_counter(inc_degree, n, lvl)
                                         ELSE [err |-> "none", deg |-> inc_degree]
                      d == IF n # NoNode /\ c.err = "none"
                           THEN Discover([err |-> "none", disc |-> discovered], n, lvl, 1)
                           ELSE [err |-> c.err, disc |-> discovered]
                  IN /\ visited' = visited \cup {id}
                     /\ level_map' = IF pc = "flm" THEN visitor(level_map, id, lvl, FALSE)
                                                   ELSE level_map
                     /\ inc_degree' = c.deg
                     /\ discovered' = d.disc
                     /\ err' = d.err
    /\ UNCHANGED <<graphVars, pc, ncalls, last, queue, qnext, cblog, M, row, R, op, result>>

\* the traversal of fault_level_map is over: line 130, then the return to
\* fault_level_map's caller (lines 142, 146, 154-183)
FaultLevelMapReturn ==
    /\ pc = "flm" /\ err = "none" /\ next = Len(discovered)
    /\ IF ~VisitedAll(visited)
       THEN /\ err' = "assert130"
            /\ UNCHANGED <<pc, result, visited, discovered, next>>
       ELSE /\ UNCHANGED err
            /\ IF op = "fault_resilence"
               THEN /\ result' = level_map[None] - 1
                    /\ pc' = "done"
                    /\ UNCHANGED <<visited, discovered, next>>
               ELSE IF op = "visit_major_edges"
               THEN /\ pc' = "deg"
                    /\ VisitNodesEnter
                    /\ UNCHANGED result
               ELSE /\ pc' = "done"
                    /\ UNCHANGED <<result, visited, discovered, next>>
    /\ UNCHANGED <<graphVars, ncalls, last, level_map, topoVars, M, row, R, op>>

----------------------------------------------------------------------------
(* visit_major_edges: the topological visit of the major transitions *)

\* line 194: `if not inc_degree[t.target]`
Ready(d) == d = 0

\* visit_transition (lines 188-195) for the i-th transition of kind `kind` of n
visit_transition(st, n, kind, i, t) ==
    LET f == find_node(t.target) IN
    IF f.err # "none" THEN [st EXCEPT !.err = f.err]
    ELSE LET logged == Append(st.log, [target |-> f.n.id, src |-> n.id, kind |-> kind, idx |-> i])
         IN IF f.n = NoNode THEN [st EXCEPT !.log = logged]
            ELSE LET d == Deg(st.deg, t.target) - 1 IN
                 [st EXCEPT !.log = logged,
                            !.deg = Put(st.deg, t.target, d),
                            !.queue = IF Ready(d) THEN Append(st.queue, f.n) ELSE st.queue]

RECURSIVE VisitList(_, _, _, _, _, _)
\* the two loops of lines 200-205 over the list ts from the i-th on
VisitList(st, n, lvl, ts, kind, i) ==
    IF st.err # "none" \/ i > Len(ts) THEN st
    ELSE LET m == is_minor(kind, level_map, lvl, ts[i]) IN
         IF m.err # "none" THEN [st EXCEPT !.err = m.err]
         ELSE IF m.minor THEN VisitList(st, n, lvl, ts, kind, i + 1)
         ELSE VisitList(visit_transition(st, n, kind, i, ts[i]), n, lvl, ts, kind, i + 1)

\* the degree pass is over: line 130 of its visit_nodes, then lines 186-187
DegreePassReturn ==
    /\ pc = "deg" /\ err = "none" /\ next = Len(discovered)
    /\ IF ~VisitedAll(visited)
       THEN /\ err' = "assert130"
            /\ UNCHANGED <<pc, queue, qnext, inc_degree>>
       ELSE IF Deg(inc_degree, root.id) # 0
       THEN /\ err' = "assert186"
            /\ UNCHANGED <<pc, queue, qnext, inc_degree>>
       ELSE /\ inc_degree' = Put(inc_degree, root.id, 0)
            /\ queue' = <<root>>
            /\ qnext' = 0
            /\ pc' = "drain"
            /\ UNCHANGED err
    /\ UNCHANGED <<graphVars, ncalls, last, bfsVars, cblog, M, row, R, op, result>>

\* one iteration of the loop of lines 197-205: a node leaves the queue and its
\* major transitions are handed to the callback
DrainStep ==
    /\ pc = "drain" /\ err = "none" /\ qnext < Len(queue)
    /\ LET n == queue[qnext + 1] IN
       /\ qnext' = qnext + 1
       /\ IF n.id \notin DOMAIN level_map
          THEN /\ err' = "keyerror199"
               /\ UNCHANGED <<inc_degree, queue, cblog>>
          ELSE LET lvl == level_map[n.id]
                   s0 == [err |-> "none", deg |-> inc_degree, queue |-> queue, log |-> cblog]
                   s1 == VisitList(s0, n, lvl, n.faults, "fault", 1)
                   s2 == VisitList(s1, n, lvl, n.recovers, "recover", 1)
               IN /\ err' = s2.err
                  /\ inc_degree' = s2.deg
                  /\ queue' = s2.queue
                  /\ cblog' = s2.log
    /\ UNCHANGED <<graphVars, pc, ncalls, last, bfsVars, M, row, R, op, result>>

\* an exit that does not compare the count with the number of nodes
ProcessedAny(k) == TRUE

\* the assertion of line 208
ProcessedAll(k) == k = Cardinality(DOMAIN nodes)

\* the queue is drained: line 208
DrainReturn ==
    /\ pc = "drain" /\ err = "none" /\ qnext = Len(queue)
    /\ IF ProcessedAll(qnext)
       THEN pc' = "done" /\ UNCHANGED err
       ELSE err' = "assert208" /\ UNCHANGED pc
    /\ UNCHANGED <<graphVars, ncalls, last, bfsVars, topoVars, M, row, R, op, result>>

----------------------------------------------------------------------------
(* The graphs handed to visit_major_edges *)

NodeSets == {0..(k - 1) : k \in 1..MaxNodes}

RECURSIVE EdgesBelow(_, _)
\* the number of transitions of the states 0..i-1 of a graph of shape sh
EdgesBelow(sh, i) ==
    IF i = 0 THEN 0 ELSE EdgesBelow(sh, i - 1) + sh[i - 1].f + sh[i - 1].r

\* the lengths of the faults and recovers tuples of each state: the root has
\* no recovery transitions (line 44)
Shapes(D) ==
    { sh \in [D -> [f : 0..MaxFaults, r : 0..MaxRecovers]] :
        /\ sh[0].r = 0
        /\ EdgesBelow(sh, Cardinality(D)) <= MaxEdges }

\* the graph of shape sh a builder leaves, its transitions leading to the ids
\* tg in turn: the root is state 0, the other states are 1..k-1 (the
\* traversals compare ids for equality only), a target is any id
GraphOf(D, sh, tg) ==
    [i \in D |->
        State(i,
              [k \in 1..sh[i].f |-> fault(tg[EdgesBelow(sh, i) + k], 1)],
              [k \in 1..sh[i].r |-> recover(tg[EdgesBelow(sh, i) + sh[i].f + k], 1)])]

Init ==
    /\ \E D \in NodeSets : \E sh \in Shapes(D) :
          \E tg \in [1..EdgesBelow(sh, Cardinality(D)) -> Ids] :
             nodes = GraphOf(D, sh, tg)
    /\ root = nodes[0]
    /\ rootIsEntry = TRUE
    /\ term_nodes \in SUBSET (Ids \ DOMAIN nodes)
    /\ err = "none" /\ ncalls = 0 /\ last = NoCall
    /\ op = "visit_major_edges" /\ pc = "flm"
    /\ visited = {} /\ discovered = <<[n |-> root, lvl |-> 0]>> /\ next = 0
    /\ level_map = EmptyMap
    /\ inc_degree = EmptyMap /\ queue = <<>> /\ qnext = 0 /\ cblog = <<>>
    /\ M = <<>> /\ row = 0 /\ R = 0 /\ result = None

Next ==
    \/ VisitNodesStep
    \/ FaultLevelMapReturn
    \/ DegreePassReturn
    \/ DrainStep
    \/ DrainReturn

Spec == Init /\ [][Next]_vars

----------------------------------------------------------------------------
(* What the claims speak of, defined on the graph alone *)

\* the State the traversals use for an id: the root object for the root's id
NodeOf(id) == IF id = root.id THEN root ELSE nodes[id]

\* the internal states a fault transition of state id leads to
FaultSucc(id) ==
    {t.target : t \in Range(NodeOf(id).faults)} \cap (DOMAIN nodes \ term_nodes)

RECURSIVE Within(_)
\* the internal states some path of at most d fault transitions leads to from the root
Within(d) ==
    IF d = 0 THEN {root.id}
    ELSE LET W == Within(d - 1) IN W \cup UNION {FaultSucc(i) : i \in W}

Reachable == Within(Cardinality(DOMAIN nodes))

\* the length of the shortest fault-only path from the root to id
Dist(id) == CHOOSE d \in 0..Cardinality(DOMAIN nodes) :
                /\ id \in Within(d)
                /\ \A e \in 0..(d - 1) : id \notin Within(e)

\* the states with a fault transition to a terminating id
TermPreds == {i \in Reachable : \E t \in Range(NodeOf(i).faults) : t.target \in term_nodes}

\* the length of the shortest fault-only path from the root to a terminating id
TermDist == CHOOSE d \in 1..(Cardinality(DOMAIN nodes) + 1) :
                /\ \E i \in TermPreds : Dist(i) + 1 = d
                /\ \A i \in TermPreds : Dist(i) + 1 >= d

AllReachable == DOMAIN nodes \subseteq Reachable

\* fault_level_map has returned to its caller
Returned == pc \in {"deg", "drain", "done"}

\* the level of a transition's target: of the state, or of the terminating class
TargetLevel(e) == IF e.target \in term_nodes THEN TermDist ELSE Dist(e.target)

\* the transitions of the graph as [src, kind, idx, target]
Edges ==
    UNION {
      {[src |-> i, kind |-> "fault", idx |-> k, target |-> NodeOf(i).faults[k].target] :
          k \in 1..Len(NodeOf(i).faults)} \cup
      {[src |-> i, kind |-> "recover", idx |-> k, target |-> NodeOf(i).recovers[k].target] :
          k \in 1..Len(NodeOf(i).recovers)} : i \in DOMAIN nodes }

\* a fault transition one level up, or a recovery transition within a level
IsMajor(e) ==
    LET lvl == Dist(e.src)
        tlvl == TargetLevel(e)
    IN IF e.kind = "fault" THEN tlvl = lvl + 1 ELSE tlvl = lvl

MajorEdges == {e \in Edges : IsMajor(e)}

\* the argument the callback gets for the target of e
CbTarget(e) == IF e.target \in term_nodes THEN None ELSE e.target

LogEntry(e) == [target |-> CbTarget(e), src |-> e.src, kind |-> e.kind, idx |-> e.idx]

RECURSIVE MajorWithin(_, _)
\* the states a path of 1..d major transitions leads to from state i
MajorWithin(i, d) ==
    LET step(S) == {e.target : e \in {x \in MajorEdges : x.src \in S}} \cap DOMAIN nodes
    IN IF d = 1 THEN step({i})
       ELSE LET W == MajorWithin(i, d - 1) IN W \cup step(W)

MajorCycle == \E i \in DOMAIN nodes : i \in MajorWithin(i, Cardinality(DOMAIN nodes))

\* every recovery transition leads to an internal state of no higher level
RecoveriesDescend ==
    \A e \in Edges : e.kind = "recover" =>
        /\ e.target \in DOMAIN nodes \ term_nodes
        /\ Dist(e.target) <= Dist(e.src)

QueueIds == {queue[k].id : k \in 1..Len(queue)}

----------------------------------------------------------------------------
(* Claims on fault_level_map and visit_major_edges *)

\* C1: whenever fault_level_map returns, every internal state id is mapped to
\* the length of the shortest fault-only path from the root (the root to 0) and
\* the key None to the least such length to a terminating id.
C1_LevelsAreShortestPaths ==
    Returned =>
        /\ DOMAIN level_map = DOMAIN nodes \cup {None}
        /\ \A i \in DOMAIN nodes : level_map[i] = Dist(i)
        /\ level_map[root.id] = 0
        /\ TermPreds # {}
        /\ level_map[None] = TermDist

\* a terminating id is met on paths of two lengths and a state on a path longer
\* than its level
C1_Witness ==
    /\ pc = "deg" /\ err = "none"
    /\ \E i, j \in TermPreds : level_map[i] < level_map[j]
    /\ \E i \in DOMAIN nodes : \E j \in FaultSucc(i) : level_map[j] <= level_map[i]

C6_AbortsByAssertion ==
    /\ ((Returned \/ err # "none") /\ (~AllReachable \/ TermPreds = {}))
          => (pc = "flm" /\ err = "assert130")
    /\ Returned => DOMAIN level_map = DOMAIN nodes \cup {None}

\* C6 as amended: in those cases fault_level_map does not return: it ends in
\* the assertion of line 130, or in the failed lookup of find_node (line 110)
\* when a fault transition of a visited state leads to an id that is neither
\* an internal nor a terminating id; whenever it returns the visited keys are
\* the node ids and None, len(nodes) + 1 of them.
C6_AbortsWhenUnreachable ==
    /\ ((Returned \/ err # "none") /\ (~AllReachable \/ TermPreds = {}))
          => (pc = "flm" /\ err \in {"assert130", "keyerror110"})
    /\ (pc = "flm" /\ err = "keyerror110")
          => \E i \in Reachable : \E t \in Range(NodeOf(i).faults) :
                t.target \notin DOMAIN nodes \cup term_nodes
    /\ (pc = "flm" /\ err = "none" /\ next = Len(discovered))
          => (VisitedAll(visited) <=> (AllReachable /\ TermPreds # {}))
    /\ Returned =>
          /\ DOMAIN level_map = DOMAIN nodes \cup {None}
          /\ Cardinality(DOMAIN level_map) = Cardinality(DOMAIN nodes) + 1

\* the assertion of line 130 stopped a traversal that met a terminating id but
\* not every internal state
C6_Witness ==
    /\ pc = "flm" /\ err = "assert130"
    /\ TermPreds # {} /\ ~AllReachable
    /\ visited = {root.id, None}

\* C9: when fault_level_map succeeds and every recovery transition leads to a
\* state of no higher level, visit_major_edges ends in the assertion of line 208
\* if the major transitions contain a cycle, and otherwise completes having
\* taken every internal state from the queue.
C9_CycleAbortsElseComplete ==
    (Returned /\ RecoveriesDescend /\ (pc = "done" \/ err # "none")) =>
        IF MajorCycle
        THEN pc = "drain" /\ err = "assert208" /\ qnext < Cardinality(DOMAIN nodes)
        ELSE /\ pc = "done" /\ err = "none"
             /\ qnext = Cardinality(DOMAIN nodes)
             /\ QueueIds = DOMAIN nodes

\* the final assertion stopped a run on a graph with a state that recovers
\* into itself, after the root had left the queue
C9_Witness ==
    /\ pc = "drain" /\ err = "assert208" /\ RecoveriesDescend /\ MajorCycle
    /\ \E e \in MajorEdges : e.kind = "recover" /\ e.src = e.target
    /\ qnext >= 1 /\ Len(cblog) >= 1

\* C10: when fault_level_map succeeds, every fault transition leads to a level
\* at most one above its source's, so the assertion of line 161 fails in neither
\* pass of visit_major_edges.
C10_FaultLevelAssertionHolds ==
    /\ err # "assert161"
    /\ Returned =>
          \A e \in Edges : e.kind = "fault" =>
              LET key == IF e.target \in term_nodes THEN None ELSE e.target IN
              /\ key \in DOMAIN level_map
              /\ level_map[key] <= level_map[e.src] + 1

\* both passes classified fault transitions: a major one was handed to the
\* callback from a state of level 1 or more, and the graph has a minor one
C10_Witness ==
    /\ pc = "done" /\ err = "none"
    /\ \E k \in 1..Len(cblog) : cblog[k].kind = "fault" /\ level_map[cblog[k].src] >= 1
    /\ \E e \in Edges : e.kind = "fault" /\ ~IsMajor(e)

----------------------------------------------------------------------------
(* nk_fail_model.py: the chain built by nk_fail_graph, then fault_resilence *)

\* the symbolic rates N*e, (N-i)*e and r play no part in the levels: rate 1
InitChain ==
    /\ R \in 1..MaxR
    /\ root = NoNode /\ nodes = EmptyMap /\ term_nodes = {} /\ rootIsEntry = FALSE
    /\ err = "none" /\ pc = "nk6" /\ ncalls = 0 /\ last = NoCall
    /\ op = "nk_fail_graph"
    /\ visited = {} /\ discovered = <<>> /\ next = 0 /\ level_map = EmptyMap
    /\ inc_degree = EmptyMap /\ queue = <<>> /\ qnext = 0 /\ cblog = <<>>
    /\ M = <<>> /\ row = 0 /\ result = None

\* nk_fail_graph line 6
NkAddRoot ==
    /\ pc = "nk6" /\ err = "none"
    /\ AddState(0, <<fault(1, 1)>>, <<>>, TRUE)
    /\ ncalls' = 1
    /\ pc' = "nk7"
    /\ UNCHANGED <<bfsVars, topoVars, M, row, R, op, result>>

\* nk_fail_graph lines 7-8, the iteration i = ncalls of range(1, R+1)
NkAddState ==
    /\ pc = "nk7" /\ err = "none" /\ ncalls <= R
    /\ AddState(ncalls, <<fault(ncalls + 1, 1)>>, <<recover(ncalls - 1, 1)>>, FALSE)
    /\ ncalls' = ncalls + 1
    /\ UNCHANGED <<pc, bfsVars, topoVars, M, row, R, op, result>>

\* nk_fail_graph lines 9-10
NkAddTerm ==
    /\ pc = "nk7" /\ err = "none" /\ ncalls = R + 1
    /\ AddTermState(R + 1)
    /\ pc' = "built"
    /\ UNCHANGED <<ncalls, bfsVars, topoVars, M, row, R, op, result>>

\* g.fault_resilence() (nk_fail_model.py line 17, fail_recover_graph.py line 242)
CallFaultResilence ==
    /\ pc = "built" /\ err = "none"
    /\ op' = "fault_resilence"
    /\ pc' = "flm"
    /\ VisitNodesEnter
    /\ UNCHANGED <<graphVars, err, ncalls, last, level_map, topoVars, M, row, R, result>>

NextChain ==
    \/ NkAddRoot
    \/ NkAddState
    \/ NkAddTerm
    \/ CallFaultResilence
    \/ VisitNodesStep
    \/ FaultLevelMapReturn

SpecChain == InitChain /\ [][NextChain]_vars

\* C8: for the chain nk_fail_graph builds, fault_resilence returns R; for R = 1
\* (the mirrored disk graph) fault_level_map is {0: 0, 1: 1, None: 2}.
C8_ChainResilienceIsR ==
    /\ err = "none"
    /\ pc = "done" =>
          /\ result = R
          /\ DOMAIN nodes = 0..R /\ term_nodes = {R + 1}
          /\ R = 1 => level_map = [x \in {None, 0, 1} |-> IF x = None THEN 2 ELSE x]

\* fault_resilence has returned for a chain of five internal states
C8_Witness ==
    /\ pc = "done" /\ R = 4 /\ result = 4
    /\ Cardinality(DOMAIN nodes) = 5

----------------------------------------------------------------------------
(* transition_intensity_matrix *)

\* the position of an id in get_states(): nodes_map of line 84, 1-based here
nodes_map(id) ==
    LET gs == get_states
        ks == {k \in 1..Len(gs) : gs[k].id = id}
    IN IF ks = {} THEN 0 ELSE CHOOSE k \in ks : \A j \in ks : j <= k

RECURSIVE FillRow(_, _, _, _)
\* the loops of lines 88-94 over the list ts from the k-th on; st is
\* [err, total, r] with r the row being written
FillRow(st, ts, kind, k) ==
    IF st.err # "none" \/ k > Len(ts) THEN st
    ELSE LET x == ts[k]
             st1 == [st EXCEPT !.total = st.total + x.rate]
         IN IF kind = "fault" /\ x.target \in term_nodes
            THEN FillRow(st1, ts, kind, k + 1)
            ELSE IF nodes_map(x.target) = 0
            THEN [st1 EXCEPT !.err = IF kind = "fault" THEN "keyerror91" ELSE "keyerror94"]
            ELSE FillRow([st1 EXCEPT !.r[nodes_map(x.target)] = x.rate], ts, kind, k + 1)

\* one iteration of the loop of line 86: the row of the state at position row + 1
MatrixRow ==
    /\ pc = "tim" /\ err = "none" /\ row < Len(M)
    /\ LET n == get_states[row + 1]
           s0 == [err |-> "none", total |-> 0, r |-> M[row + 1]]
           s1 == FillRow(s0, n.faults, "fault", 1)
           s2 == FillRow(s1, n.recovers, "recover", 1)
       IN /\ err' = s2.err
          /\ M' = IF s2.err = "none"
                  THEN [M EXCEPT ![row + 1] = [s2.r EXCEPT ![row + 1] = 0 - s2.total]]
                  ELSE M
    /\ row' = row + 1
    /\ UNCHANGED <<graphVars, pc, ncalls, last, bfsVars, topoVars, R, op, result>>

\* line 96
MatrixReturn ==
    /\ pc = "tim" /\ err = "none" /\ row = Len(M)
    /\ pc' = "done"
    /\ UNCHANGED <<graphVars, err, ncalls, last, bfsVars, topoVars, M, row, R, op, result>>

MatrixIds == 0..MaxMatrixId

MatrixFaults == SeqsUpTo({fault(t, r) : t \in MatrixIds, r \in 1..MaxRate}, MaxFaults)

MatrixRecovers == SeqsUpTo({recover(t, r) : t \in MatrixIds, r \in 1..MaxRate}, MaxRecovers)

\* graphs on the internal states D, the root first, with integer rates
MatrixGraphs(D) ==
    { g \in [D -> [id : D, faults : MatrixFaults, recovers : MatrixRecovers]] :
        /\ \A i \in D : g[i].id = i
        /\ g[0].recovers = <<>> }

\* lines 83-85
InitMatrix ==
    /\ \E D \in {{0}, {0, 1}} : nodes \in MatrixGraphs(D)
    /\ root = nodes[0]
    /\ rootIsEntry = TRUE
    /\ term_nodes \in SUBSET (MatrixIds \ DOMAIN nodes)
    /\ err = "none" /\ ncalls = 0 /\ last = NoCall
    /\ op = "transition_intensity_matrix" /\ pc = "tim"
    /\ M = [i \in 1..Cardinality(DOMAIN nodes) |-> [j \in 1..Cardinality(DOMAIN nodes) |-> 0]]
    /\ row = 0
    /\ visited = {} /\ discovered = <<>> /\ next = 0 /\ level_map = EmptyMap
    /\ inc_degree = EmptyMap /\ queue = <<>> /\ qnext = 0 /\ cblog = <<>>
    /\ R = 0 /\ result = None

NextMatrix == MatrixRow \/ MatrixReturn

SpecMatrix == InitMatrix /\ [][NextMatrix]_vars

RECURSIVE RateSum(_, _)
\* the sum of the rates of the transitions of the list ts with a target in S
RateSum(ts, S) ==
    IF ts = <<>> THEN 0
    ELSE (IF Head(ts).target \in S THEN Head(ts).rate ELSE 0) + RateSum(Tail(ts), S)

\* C5: when every transition target is defined, the matrix returned has on the
\* diagonal minus the sum of the rates of all the transitions of the state, and
\* at [i, j], j # i, the total rate of the transitions of state i to state j.
C5_MatrixEntriesAreTotals ==
    (pc = "done" /\ op = "transition_intensity_matrix") =>
        LET gs == get_states IN
        /\ Len(M) = Len(gs)
        /\ \A i \in 1..Len(gs) :
              /\ Len(M[i]) = Len(gs)
              /\ M[i][i] = 0 - (RateSum(gs[i].faults, MatrixIds)
                                + RateSum(gs[i].recovers, MatrixIds))
              /\ \A j \in 1..Len(gs) : j # i =>
                    M[i][j] = RateSum(gs[i].faults, {gs[j].id})
                              + RateSum(gs[i].recovers, {gs[j].id})

----------------------------------------------------------------------------
(* Claims on graph construction *)

\* C3: after any sequence of add_state and add_term_state calls none of which
\* aborted, no id is both a key of nodes and a member of term_nodes.
C3_NodesAndTermNodesDisjoint ==
    err = "none" => DOMAIN nodes \cap term_nodes = {}

\* C4: after add_state calls that all succeeded, one of them with is_root,
\* get_states() is the root followed by the other entries of nodes in strictly
\* ascending id order, each once: as long as nodes, with no id twice.
C4_GetStatesRootThenAscending ==
    (err = "none" /\ root # NoNode) =>
        LET gs == get_states IN
        /\ gs[1] = root
        /\ Len(gs) = Cardinality(DOMAIN nodes)
        /\ \A j, k \in 1..Len(gs) : j # k => gs[j].id # gs[k].id
        /\ \A j, k \in 2..Len(gs) : j < k => gs[j].id < gs[k].id
        /\ {gs[k].id : k \in 1..Len(gs)} = DOMAIN nodes
        /\ \A k \in 2..Len(gs) : gs[k] = nodes[gs[k].id]

\* C7: an add_state call with is_root aborts when a root is already set or
\* recovers is not empty; so the root is assigned at most once, never changes
\* once assigned, and has no recovery transitions.
C7_RootAssignedOnce ==
    [][ /\ (root # NoNode => root' = root)
        /\ (root' # NoNode => root'.recovers = <<>>)
        /\ (last'.op = "add_state" /\ last'.is_root
               /\ (root # NoNode \/ last'.recovers # <<>>))
              => (err' \in {"assert43", "assert44"} /\ root' = root)
        /\ (last'.op = "add_state" /\ last'.is_root
               /\ root = NoNode /\ last'.recovers = <<>>)
              => (err' = "none" /\ root' = nodes'[last'.id])
      ]_vars

\* a second add_state call with is_root was stopped by the assertion of line 43
\* with the first root still in place
C7_Witness ==
    /\ err = "assert43" /\ last.op = "add_state" /\ last.is_root
    /\ root # NoNode /\ root.recovers = <<>>
    /\ ncalls >= 3

====
